---- MODULE Spec2Model ----
\* Verification model of jalagrod/MultiTask_NLU:
\*   - evaluate_metrics (components/MultiTask/src/metrics.py): the metric evaluator,
\*     called twice by a caller on the same batch source and language array;
\*   - MT_IC_HNER_Model.forward with LinearProjFormat, IC2NER and NER2IC (src/model.py):
\*     the forward pass, with tensors as symbolic terms that carry their shape and the
\*     two Python dicts of the projected representation as heap objects.
EXTENDS Integers, Sequences, FiniteSets, TLC

VARIABLES
    \* ---- evaluate_metrics ----
    val_dtl,        \* the batch source: a sequence of batches, each a sequence of examples
    language_arr,   \* the caller's language array
    order,          \* order in which iter(val_dtl) yields the batches during this call
    pc,             \* position of the running call
    it,             \* number of batches the iterator has yielded in this call
    ner_pred_ids,   \* the last batch's predicted NER ids (ner_output before decoding)
    built,          \* whether the call has rebound the accumulators to concatenated arrays
    IC_LABELS, IC_OUTPUT, NER_LABELS, NER_OUTPUT,   \* the four accumulators
    global_metrics, lang_metrics,
    langs_left,     \* the part of np.unique(language_arr) the second loop has not visited
    lang_idx,       \* per language key, the example indices its boolean mask selected
    err,            \* the exception that ended the call, if any
    results,        \* what each finished call handed to the caller
    \* ---- MT_IC_HNER_Model.forward ----
    tags,           \* the tag hierarchy, list(num_labels["H_NER"].keys())
    num_labels,     \* label counts: [IC |-> n, H_NER |-> [tag |-> n]]
    batch_size,     \* examples in the forward pass' input
    fpc,            \* position of the forward pass
    heap,           \* the inner dict objects: address -> (tag -> tensor)
    formatted_dict, \* the caller's outer dict: [IC |-> tensor, H_NER |-> address]
    input,          \* IC2NER.forward's local outer dict
    i,              \* loop index of the hierarchical attention loop
    attn_calls,     \* the attention module calls made so far, in order
    ner_output, last_ner, ic_output,
    fwd_err,        \* the exception that ended the forward pass, if any
    fwd_result      \* what forward returned

evalVars == <<val_dtl, language_arr, order, pc, it, ner_pred_ids, built, IC_LABELS, IC_OUTPUT, NER_LABELS,
              NER_OUTPUT, global_metrics, lang_metrics, langs_left, lang_idx, err, results>>
fwdVars == <<tags, num_labels, batch_size, fpc, heap, formatted_dict, input, i,
             attn_calls, ner_output, last_ner, ic_output, fwd_err, fwd_result>>
vars == <<evalVars, fwdVars>>

\* ------------------------------------------------------------------ bounds
\* Largest number of examples the batch source holds.
MaxExamples == 4
\* Longest tag hierarchy of the forward pass.
MaxTags == 3

\* ------------------------------------------------------------------ values
\* Python's None, as a value a variable holds.
NoValue == [none |-> TRUE]
\* A decoded tag that is Python's None object (object-dtype array).
NoneObject == "<None>"
\* A decoded tag that is the string numpy makes of None in a str-dtype array.
NoneString == "'None'"

\* ------------------------------------------------------------------ rationals
RECURSIVE GCD(_, _)
GCD(a, b) == IF b = 0 THEN a ELSE GCD(b, a % b)

\* The exact value n/d in lowest terms; <<0, 0>> stands for an undefined 0/0.
Frac(n, d) == IF d = 0 THEN <<0, 0>> ELSE LET g == GCD(n, d) IN <<n \div g, d \div g>>

FAdd(a, b) == Frac(a[1] * b[2] + b[1] * a[2], a[2] * b[2])

\* ---------------------------------------------------------- configuration
\* trainer.model.num_labels['IC']
NumIC == 2
\* trainer.model.num_labels['NER']
NumNER == 2
\* trainer.model.max_length
MaxLength == 2

\* trainer.eval_dataset.ner2idx
ner2idx == [t \in {"O", "B-x"} |-> IF t = "O" THEN 0 ELSE 1]

\* idx2ner = {v:k for k,v in ner2idx.items()}
idx2ner == [v \in {ner2idx[k] : k \in DOMAIN ner2idx} |->
               CHOOSE k \in DOMAIN ner2idx : ner2idx[k] = v]

\* The label id the data uses for positions without a tag; it is no key of idx2ner.
IgnoreId == 0 - 100

\* The examples a batch is made of: tokens, and the stacked label row
\* (column 0 = IC label, the remaining MaxLength columns = NER labels).
Examples == { [tokens |-> 0, labels |-> <<1, 1, 0>>],
              [tokens |-> 1, labels |-> <<1, IgnoreId, 1>>] }

\* The frozen model: the flat output row for an example, NumIC IC logits followed
\* by MaxLength * NumNER NER logits.
ModelRow(tokens) == IF tokens = 0 THEN <<0, 2,   0, 3,   1, 1>>
                                  ELSE <<1, 1,   2, 0,   0, 1>>

Langs == {"en", "fr"}

\* ---------------------------------------------------------------- inputs
RECURSIVE Chunks(_, _)
\* The batches a loader of batch size b makes of a dataset: consecutive groups of b
\* examples, the last one holding what is left.
Chunks(ds, b) == IF Len(ds) <= b THEN (IF ds = <<>> THEN <<>> ELSE <<ds>>)
                 ELSE <<SubSeq(ds, 1, b)>> \o Chunks(SubSeq(ds, b + 1, Len(ds)), b)

\* Every batch source over at most n examples, for every batch size.
Loaders(n) == UNION { { Chunks(ds, b) : b \in 1..(IF m = 0 THEN 1 ELSE m), ds \in [1..m -> Examples] }
                      : m \in 0..n }

RECURSIVE SumLen(_)
SumLen(s) == IF s = <<>> THEN 0 ELSE Len(Head(s)) + SumLen(Tail(s))

\* Total example count of the batch source.
NumExamples == SumLen(val_dtl)

\* The language arrays a caller passes for n examples: every aligned array, one
\* array that is one entry short, and the empty array.
LangArrays(n) == [1..n -> Langs] \cup {[k \in 1..(n - 1) |-> "en"]} \cup {<<>>}

Identity(k) == [j \in 1..k |-> j]
Reverse(k) == [j \in 1..k |-> k + 1 - j]
Rotate(k) == [j \in 1..k |-> (j % k) + 1]
IsPermutation(ord, k) == Len(ord) = k /\ {ord[j] : j \in 1..Len(ord)} = 1..k
\* Iteration orders of a source of k batches.
Orders(k) == {Identity(k), Reverse(k), Rotate(k)}

\* ------------------------------------------------------- numpy / torch
\* dict.get(k): the value, or None when k is no key.
DictGet(d, k) == IF k \in DOMAIN d THEN d[k] ELSE NoneObject

\* An argmax that counts positions from 1.
ArgMaxOneBased(v) == CHOOSE j \in 1..Len(v) :
                        /\ \A k \in 1..Len(v) : v[k] <= v[j]
                        /\ \A k \in 1..(j - 1) : v[k] < v[j]

\* torch.argmax over the last axis: 0-based index of the first maximal value.
ArgMax(v) == (CHOOSE j \in 1..Len(v) :
                 /\ \A k \in 1..Len(v) : v[k] <= v[j]
                 /\ \A k \in 1..(j - 1) : v[k] < v[j]) - 1

\* torch.squeeze: drops every axis of size 1 from the shape.
Squeeze(shape) == SelectSeq(shape, LAMBDA d : d # 1)

RECURSIVE Flatten(_)
\* Row-major flattening of a sequence of rows.
Flatten(rows) == IF rows = <<>> THEN <<>> ELSE Head(rows) \o Flatten(Tail(rows))

\* tensor.reshape((-1, a, b)) of a matrix given by its rows, as a sequence of
\* a-by-b blocks; no blocks ([ok |-> FALSE]) when the element count is no multiple of a * b.
Reshape3(rows, a, b) ==
    LET flat == Flatten(rows) IN
    IF Len(flat) % (a * b) # 0 THEN [ok |-> FALSE]
    ELSE [ok |-> TRUE, blocks |-> [r \in 1..(Len(flat) \div (a * b)) |->
            [l \in 1..a |-> [j \in 1..b |-> flat[((r - 1) * a + (l - 1)) * b + j]]]]]

\* np.vectorize(idx2ner.get)(arr) on a non-empty 2-D integer array: the output dtype
\* is taken from the result for the first element; a str dtype turns later None
\* results into the string 'None', an object dtype keeps the None objects.
VectorizeGet(rows) ==
    LET first == DictGet(idx2ner, rows[1][1])
        dtype == IF first = NoneObject THEN "O" ELSE "U"
        dec(x) == LET t == DictGet(idx2ner, x)
                  IN IF t = NoneObject /\ dtype = "U" THEN NoneString ELSE t
    IN [dtype |-> dtype,
        rows  |-> [r \in 1..Len(rows) |-> [c \in 1..Len(rows[r]) |-> dec(rows[r][c])]]]

\* np.concatenate of a list of 1-D arrays [shape, data]; the error it raises for an
\* empty list or a 0-d member is returned as [error |-> message].
Concatenate1(list) ==
    IF list = <<>> THEN [error |-> "ValueError: need at least one array to concatenate"]
    ELSE IF \E k \in 1..Len(list) : list[k].shape = <<>>
         THEN [error |-> "ValueError: zero-dimensional arrays cannot be concatenated"]
    ELSE LET data == Flatten([k \in 1..Len(list) |-> list[k].data])
         IN [shape |-> <<Len(data)>>, data |-> data]

\* np.concatenate of a list of 2-D decoded arrays [dtype, rows] along axis 0.
Concatenate2(list) ==
    IF list = <<>> THEN [error |-> "ValueError: need at least one array to concatenate"]
    ELSE [dtype |-> IF \E k \in 1..Len(list) : list[k].dtype = "O" THEN "O" ELSE "U",
          rows  |-> Flatten([k \in 1..Len(list) |-> list[k].rows])]

IsError(x) == "error" \in DOMAIN x

\* language_arr == lang
Mask(arr, lang) == [k \in 1..Len(arr) |-> arr[k] = lang]

\* The indices a boolean mask selects.
MaskIndices(mask) == {k \in 1..Len(mask) : mask[k]}

RECURSIVE Take(_, _, _)
\* The entries of seq at the indices in idx that are >= k, in index order.
Take(seq, idx, k) ==
    IF k > Len(seq) THEN <<>>
    ELSE (IF k \in idx THEN <<seq[k]>> ELSE <<>>) \o Take(seq, idx, k + 1)

\* a[mask] for an array of n rows: the selected rows, or the IndexError numpy raises
\* when the mask's length is not n.
BoolIndex(seq, mask) ==
    IF Len(mask) # Len(seq)
    THEN [error |-> "IndexError: boolean index did not match indexed array"]
    ELSE [rows |-> Take(seq, MaskIndices(mask), 1)]

LangOrder == <<"en", "fr">>
\* A language loop over every known language, present in the data or not.
UniqueAllKnown(arr) == LangOrder

\* np.unique(language_arr): the distinct values, sorted.
Unique(arr) == SelectSeq(LangOrder, LAMBDA l : \E k \in 1..Len(arr) : arr[k] = l)

\* ------------------------------------------------------------- metrics
\* sklearn accuracy_score: the fraction of positions where the two agree.
accuracy_score(y_true, y_pred) ==
    Frac(Cardinality({k \in 1..Len(y_true) : y_true[k] = y_pred[k]}), Len(y_true))

\* F1 of one class from its confusion counts; 0 when the class has no support at all.
ClassF1(y_true, y_pred, c) ==
    LET tp == Cardinality({k \in 1..Len(y_true) : y_true[k] = c /\ y_pred[k] = c})
        fp == Cardinality({k \in 1..Len(y_true) : y_true[k] # c /\ y_pred[k] = c})
        fn == Cardinality({k \in 1..Len(y_true) : y_true[k] = c /\ y_pred[k] # c})
    IN IF 2 * tp + fp + fn = 0 THEN <<0, 1>> ELSE Frac(2 * tp, 2 * tp + fp + fn)

RECURSIVE SumF1(_, _, _, _)
SumF1(y_true, y_pred, classes, c) ==
    IF c >= NumIC THEN <<0, 1>>
    ELSE FAdd(IF c \in classes THEN ClassF1(y_true, y_pred, c) ELSE <<0, 1>>,
              SumF1(y_true, y_pred, classes, c + 1))

\* sklearn f1_score(average='macro'): the unweighted mean of the per-class F1 over
\* the classes present in y_true or y_pred.
f1_score(y_true, y_pred) ==
    LET classes == {y_true[k] : k \in 1..Len(y_true)} \cup {y_pred[k] : k \in 1..Len(y_pred)}
        s == SumF1(y_true, y_pred, classes, 0)
    IN Frac(s[1], s[2] * Cardinality(classes))

\* The entities of decoded tag sequences: one per position whose tag is not "O".
Entities(rows) == {<<r, c, rows[r][c]>> : r \in 1..Len(rows), c \in 1..MaxLength} \
                  {<<r, c, "O">> : r \in 1..Len(rows), c \in 1..MaxLength}

\* computeF1Score(predicted, gold): entity-level (F1, precision, recall).
computeF1Score(pred, gold) ==
    LET P == Entities(pred)
        G == Entities(gold)
        tp == Cardinality(P \cap G)
    IN <<Frac(2 * tp, Cardinality(P) + Cardinality(G)),
         Frac(tp, Cardinality(P)),
         Frac(tp, Cardinality(G))>>

\* The five metrics of a set of examples (lines 43-46 and 51-54).
Metrics(ic_labels, ic_out, ner_out, ner_labels) ==
    LET ner == computeF1Score(ner_out, ner_labels)
    IN [accuracy_IC   |-> accuracy_score(ic_labels, ic_out),
        f1_IC         |-> f1_score(ic_labels, ic_out),
        f1_NER        |-> ner[1],
        precision_NER |-> ner[2],
        recall_NER    |-> ner[3]]

\* ---------------------------------------------------- evaluate_metrics
\* The forward-pass variables, idle while the evaluator runs.
FwdIdle ==
    /\ tags = <<>> /\ num_labels = NoValue /\ batch_size = 0 /\ fpc = "off"
    /\ heap = <<>> /\ formatted_dict = NoValue /\ input = NoValue /\ i = 0
    /\ attn_calls = <<>> /\ ner_output = NoValue /\ last_ner = NoValue
    /\ ic_output = NoValue /\ fwd_err = "" /\ fwd_result = NoValue

Init ==
    /\ val_dtl \in Loaders(MaxExamples)
    /\ language_arr \in LangArrays(SumLen(val_dtl))
    /\ order = Identity(Len(val_dtl))
    /\ pc = "idle" /\ it = 0 /\ ner_pred_ids = <<>> /\ built = FALSE
    /\ IC_LABELS = <<>> /\ IC_OUTPUT = <<>> /\ NER_LABELS = <<>> /\ NER_OUTPUT = <<>>
    /\ global_metrics = NoValue /\ lang_metrics = <<>>
    /\ langs_left = <<>> /\ lang_idx = <<>>
    /\ err = "" /\ results = <<>>
    /\ FwdIdle

\* What the caller sees of a call when it ends.
Outcome(kind, value, e) ==
    [outcome |-> kind, value |-> value, err |-> e, order |-> order,
     language_arr |-> language_arr, consumed |-> SubSeq(order, 1, it)]

\* An exception handler that hands the caller whatever was computed so far.
RaiseReturnsPartial(e) ==
    /\ pc' = "idle"
    /\ err' = e
    /\ results' = Append(results,
                         Outcome("raised", [global |-> global_metrics, lang |-> lang_metrics], e))

\* An exception leaves evaluate_metrics (it has no handler): nothing is returned.
Raise(e) ==
    /\ pc' = "idle"
    /\ err' = e
    /\ results' = Append(results, Outcome("raised", NoValue, e))

\* A call that goes on with the iterator the previous call left behind.
SetupSharedIterator(ord, langs) ==
    /\ order' = ord
    /\ language_arr' = langs
    /\ it' = it
    /\ IC_LABELS' = <<>> /\ IC_OUTPUT' = <<>> /\ NER_LABELS' = <<>> /\ NER_OUTPUT' = <<>>
    /\ built' = FALSE
    /\ ner_pred_ids' = <<>>
    /\ global_metrics' = NoValue /\ lang_metrics' = <<>>
    /\ langs_left' = <<>> /\ lang_idx' = <<>>
    /\ err' = ""
    /\ pc' = "loop"
    /\ UNCHANGED <<val_dtl, results>>

\* Lines 12-14 and iter(val_dtl) of line 17: a call starts with empty accumulators
\* and a fresh iterator over the batch source.
Setup(ord, langs) ==
    /\ order' = ord
    /\ language_arr' = langs
    /\ it' = 0
    /\ IC_LABELS' = <<>> /\ IC_OUTPUT' = <<>> /\ NER_LABELS' = <<>> /\ NER_OUTPUT' = <<>>
    /\ built' = FALSE
    /\ ner_pred_ids' = <<>>
    /\ global_metrics' = NoValue /\ lang_metrics' = <<>>
    /\ langs_left' = <<>> /\ lang_idx' = <<>>
    /\ err' = ""
    /\ pc' = "loop"
    /\ UNCHANGED <<val_dtl, results>>

\* The language array reordered as the examples are when the batches come in order ord.
PermuteLangs(arr, ord) ==
    LET start(b) == SumLen(SubSeq(val_dtl, 1, b - 1))
    IN Flatten([j \in 1..Len(ord) |->
                  SubSeq(arr, start(ord[j]) + 1, start(ord[j]) + Len(val_dtl[ord[j]]))])

\* The caller's first call: the batch source in its own order.
FirstCall ==
    /\ pc = "idle" /\ results = <<>>
    /\ Setup(Identity(Len(val_dtl)), language_arr)
    /\ UNCHANGED fwdVars

\* The caller's second call, same model and data: the batch source yields its batches
\* in the same or in a permuted order, and the language array is the same one or is
\* reordered with the examples.
SecondCall ==
    /\ pc = "idle" /\ Len(results) = 1
    /\ \E ord \in Orders(Len(val_dtl)) :
         \E langs \in {language_arr} \cup
                      (IF Len(language_arr) = NumExamples THEN {PermuteLangs(language_arr, ord)} ELSE {}) :
            Setup(ord, langs)
    /\ UNCHANGED fwdVars

\* Lines 17-35: one iteration of the inference loop.
ProcessBatch ==
    /\ pc = "loop" /\ it < Len(val_dtl)
    /\ LET batch      == val_dtl[order[it + 1]]
           B          == Len(batch)
           labels     == [r \in 1..B |-> batch[r].labels]
           \* line 19: squeeze(labels[:, :1])
           ic_labels  == [shape |-> Squeeze(<<B, 1>>), data |-> [r \in 1..B |-> labels[r][1]]]
           \* line 20: labels[:, 1:]
           ner_labels == [r \in 1..B |-> SubSeq(labels[r], 2, Len(labels[r]))]
           \* line 24
           output     == [r \in 1..B |-> ModelRow(batch[r].tokens)]
           \* line 25
           ic_out     == [shape |-> <<B>>,
                          data |-> [r \in 1..B |-> ArgMax(SubSeq(output[r], 1, NumIC))]]
           \* line 26
           reshaped   == Reshape3([r \in 1..B |-> SubSeq(output[r], NumIC + 1, Len(output[r]))],
                                  MaxLength, NumNER)
       IN IF ~reshaped.ok
          THEN /\ Raise("RuntimeError: shape is invalid for input")
               /\ UNCHANGED <<it, ner_pred_ids, IC_LABELS, IC_OUTPUT, NER_LABELS, NER_OUTPUT>>
          ELSE LET blocks == reshaped.blocks
                   \* line 27
                   ner_out == [r \in 1..Len(blocks) |->
                                 [l \in 1..MaxLength |-> ArgMax(blocks[r][l])]]
               IN /\ ner_pred_ids' = ner_out
                  \* lines 29-35
                  /\ IC_LABELS' = Append(IC_LABELS, ic_labels)
                  /\ IC_OUTPUT' = Append(IC_OUTPUT, ic_out)
                  /\ NER_LABELS' = Append(NER_LABELS, VectorizeGet(ner_labels))
                  /\ NER_OUTPUT' = Append(NER_OUTPUT, VectorizeGet(ner_out))
                  /\ it' = it + 1
                  /\ UNCHANGED <<pc, err, results>>
    /\ UNCHANGED <<val_dtl, language_arr, order, built, global_metrics, lang_metrics,
                   langs_left, lang_idx>>
    /\ UNCHANGED fwdVars

\* Lines 36-40, once the iterator is exhausted: the accumulators are rebound to the
\* concatenated arrays; the first failing np.concatenate ends the call.
BuildFinal ==
    /\ pc = "loop" /\ it = Len(val_dtl)
    /\ LET a == Concatenate1(IC_LABELS)
           b == Concatenate1(IC_OUTPUT)
           c == Concatenate2(NER_LABELS)
           d == Concatenate2(NER_OUTPUT)
           failed == SelectSeq(<<a, b, c, d>>, IsError)
       IN IF failed # <<>>
          THEN /\ Raise(failed[1].error)
               /\ UNCHANGED <<IC_LABELS, IC_OUTPUT, NER_LABELS, NER_OUTPUT, built>>
          ELSE /\ IC_LABELS' = a /\ IC_OUTPUT' = b /\ NER_LABELS' = c /\ NER_OUTPUT' = d
               /\ built' = TRUE
               /\ pc' = "global"
               /\ UNCHANGED <<err, results>>
    /\ UNCHANGED <<val_dtl, language_arr, order, it, ner_pred_ids, global_metrics,
                   lang_metrics, langs_left, lang_idx>>
    /\ UNCHANGED fwdVars

\* Global metrics taken from the first batch's rows alone.
GlobalInputsFirstBatch ==
    LET n == Len(val_dtl[order[1]])
    IN <<SubSeq(IC_LABELS.data, 1, n), SubSeq(IC_OUTPUT.data, 1, n),
         SubSeq(NER_OUTPUT.rows, 1, n), SubSeq(NER_LABELS.rows, 1, n)>>

\* Lines 43-45: what the global metrics are computed from, the whole concatenated arrays.
GlobalInputs == <<IC_LABELS.data, IC_OUTPUT.data, NER_OUTPUT.rows, NER_LABELS.rows>>

\* Lines 41-50: the global metrics, then the second loop is set up over
\* np.unique(language_arr) with an empty per-language mapping.
GlobalMetrics ==
    /\ pc = "global"
    /\ global_metrics' = Metrics(GlobalInputs[1], GlobalInputs[2], GlobalInputs[3], GlobalInputs[4])
    /\ lang_metrics' = <<>>
    /\ langs_left' = Unique(language_arr)
    /\ pc' = "langs"
    /\ UNCHANGED <<val_dtl, language_arr, order, it, ner_pred_ids, built, IC_LABELS,
                   IC_OUTPUT, NER_LABELS, NER_OUTPUT, lang_idx, err, results>>
    /\ UNCHANGED fwdVars

\* Lines 50-54: one iteration of the per-language loop.
LangMetrics ==
    /\ pc = "langs" /\ langs_left # <<>>
    /\ LET lang == Head(langs_left)
           mask == Mask(language_arr, lang)
           icl  == BoolIndex(IC_LABELS.data, mask)
           ico  == BoolIndex(IC_OUTPUT.data, mask)
           nero == BoolIndex(NER_OUTPUT.rows, mask)
           nerl == BoolIndex(NER_LABELS.rows, mask)
           failed == SelectSeq(<<icl, ico, nero, nerl>>, IsError)
       IN IF failed # <<>>
          THEN /\ Raise(failed[1].error)
               /\ UNCHANGED <<lang_metrics, langs_left, lang_idx>>
          ELSE /\ lang_metrics' = (lang :> Metrics(icl.rows, ico.rows, nero.rows, nerl.rows))
                                  @@ lang_metrics
               /\ lang_idx' = (lang :> MaskIndices(mask)) @@ lang_idx
               /\ langs_left' = Tail(langs_left)
               /\ UNCHANGED <<pc, err, results>>
    /\ UNCHANGED <<val_dtl, language_arr, order, it, ner_pred_ids, built, IC_LABELS,
                   IC_OUTPUT, NER_LABELS, NER_OUTPUT, global_metrics>>
    /\ UNCHANGED fwdVars

\* Line 55.
Return ==
    /\ pc = "langs" /\ langs_left = <<>>
    /\ pc' = "idle"
    /\ results' = Append(results, Outcome("returned", [global |-> global_metrics, lang |-> lang_metrics], ""))
    /\ UNCHANGED <<val_dtl, language_arr, order, it, ner_pred_ids, built, IC_LABELS,
                   IC_OUTPUT, NER_LABELS, NER_OUTPUT, global_metrics, lang_metrics,
                   langs_left, lang_idx, err>>
    /\ UNCHANGED fwdVars

Next ==
    \/ FirstCall
    \/ SecondCall
    \/ ProcessBatch
    \/ BuildFinal
    \/ GlobalMetrics
    \/ LangMetrics
    \/ Return

Spec == Init /\ [][Next]_vars

\* ------------------------------------------------------------- tensors
\* A tensor: its shape and the symbolic term that computed it. A term names the
\* operation, the module that owns the parameters used, and the argument terms.
Tensor(shape, op, of, args) ==
    [shape |-> shape, term |-> [op |-> op, of |-> of, args |-> args]]

ShapeError(msg) == [error |-> msg]

\* proj_dim default of MT_IC_HNER_Model.__init__
proj_dim == 128
\* num_heads default of MT_IC_HNER_Model.__init__
num_heads == 4
\* config.max_position_embeddings of the backbone
pos_embeddings == 6
\* config.hidden_size of the backbone
hidden_size == 8

\* torch.nn.Linear(in_features, out_features) owned by `of`, applied to x.
Linear(of, in_features, out_features, x) ==
    IF x.shape[Len(x.shape)] # in_features
    THEN ShapeError("RuntimeError: mat1 and mat2 shapes cannot be multiplied")
    ELSE Tensor([x.shape EXCEPT ![Len(x.shape)] = out_features], "linear", of, <<x.term>>)

\* torch.transpose(x, 1, 2) of a 3-D tensor.
Transpose12(x) ==
    Tensor(<<x.shape[1], x.shape[3], x.shape[2]>>, "transpose", <<"torch">>, <<x.term>>)

\* torch.mean(x, dim, keepdim) over the axis at 1-based position ax.
Mean(x, ax, keepdim) ==
    Tensor(IF keepdim THEN [x.shape EXCEPT ![ax] = 1]
           ELSE SubSeq(x.shape, 1, ax - 1) \o SubSeq(x.shape, ax + 1, Len(x.shape)),
           "mean", <<"torch", ax>>, <<x.term>>)

\* torch.matmul of two 3-D tensors (batched matrix product).
MatMul(a, b) ==
    IF a.shape[1] # b.shape[1] \/ a.shape[3] # b.shape[2]
    THEN ShapeError("RuntimeError: batch1 and batch2 shapes cannot be multiplied")
    ELSE Tensor(<<a.shape[1], a.shape[2], b.shape[3]>>, "matmul", <<"torch">>,
                <<a.term, b.term>>)

\* torch.nn.MultiheadAttention(embed, heads, kdim=embed, vdim=embed, batch_first=True)
\* owned by `of`: the attention output (the first element of the pair it returns).
MultiheadAttention(of, embed, q, k, v) ==
    IF \/ embed % num_heads # 0
       \/ q.shape[3] # embed \/ k.shape[3] # embed \/ v.shape[3] # embed
       \/ k.shape[2] # v.shape[2]
       \/ q.shape[1] # k.shape[1] \/ k.shape[1] # v.shape[1]
    THEN ShapeError("AssertionError: attention shapes do not match")
    ELSE Tensor(<<q.shape[1], q.shape[2], embed>>, "attn", of, <<q.term, k.term, v.term>>)

\* ------------------------------------------------------ model.forward
TagNames == <<"domain", "type", "subtype", "role", "detail">>
LabelCounts == {2, 3}
BatchSizes == {1, 2}

\* The eval-side variables, idle while the forward pass runs.
EvalIdle ==
    /\ val_dtl = <<>> /\ language_arr = <<>> /\ order = <<>> /\ pc = "off" /\ it = 0
    /\ ner_pred_ids = <<>> /\ built = FALSE
    /\ IC_LABELS = <<>> /\ IC_OUTPUT = <<>> /\ NER_LABELS = <<>> /\ NER_OUTPUT = <<>>
    /\ global_metrics = NoValue /\ lang_metrics = <<>>
    /\ langs_left = <<>> /\ lang_idx = <<>> /\ err = "" /\ results = <<>>

\* After MT_IC_HNER_Model.__init__ (lines 91-113), with an input batch at hand.
InitFwd ==
    /\ \E n \in 0..MaxTags :
         /\ tags = SubSeq(TagNames, 1, n)
         /\ \E ic \in LabelCounts, h \in [{TagNames[k] : k \in 1..n} -> LabelCounts] :
               num_labels = [IC |-> ic, H_NER |-> h]
    /\ batch_size \in BatchSizes
    /\ fpc = "format"
    /\ heap = <<>> /\ formatted_dict = NoValue /\ input = NoValue /\ i = 0
    /\ attn_calls = <<>> /\ ner_output = NoValue /\ last_ner = NoValue
    /\ ic_output = NoValue /\ fwd_err = "" /\ fwd_result = NoValue
    /\ EvalIdle

TagSet == {tags[k] : k \in 1..Len(tags)}

\* Lines 116-117: the backbone's last hidden state.
sequence_output ==
    Tensor(<<batch_size, pos_embeddings, hidden_size>>, "backbone", <<"transformer">>, <<>>)

\* LinearProjFormat's projections (lines 23-24).
ICProj == Linear(<<"format_layer.linear", "IC">>, hidden_size, proj_dim, sequence_output)
NERProj(column) ==
    Linear(<<"format_layer.linear", "H_NER", column>>, hidden_size, proj_dim, sequence_output)

\* The address of the inner dict LinearProjFormat.forward allocates.
InnerAddr == 1

\* An exception leaves forward.
FwdRaise(e) == fpc' = "error" /\ fwd_err' = e

\* Lines 116-118: backbone, then LinearProjFormat.forward builds the outer dict and
\* the inner H_NER dict.
Format ==
    /\ fpc = "format"
    /\ heap' = (InnerAddr :> [column \in TagSet |-> NERProj(column)])
    /\ formatted_dict' = [IC |-> ICProj, H_NER |-> InnerAddr]
    /\ fpc' = "ic2ner"
    /\ UNCHANGED <<tags, num_labels, batch_size, input, i, attn_calls, ner_output,
                   last_ner, ic_output, fwd_err, fwd_result>>
    /\ UNCHANGED evalVars

\* dict.copy(): a new outer dict holding the same values, so the same inner dict.
DictCopy(d) == [IC |-> d.IC, H_NER |-> d.H_NER]

\* Lines 48-49: the copy, and its IC entry rebound to the per-level label-space tensors.
IC2NER_Setup ==
    /\ fpc = "ic2ner"
    /\ LET copy == DictCopy(formatted_dict)
           ic   == [column \in TagSet |->
                      Linear(<<"ic2ner.linear", column>>, pos_embeddings,
                             num_labels.H_NER[column], Transpose12(copy.IC))]
       IN IF \E column \in TagSet : IsError(ic[column])
          THEN /\ FwdRaise((CHOOSE column \in TagSet : IsError(ic[column])).error)
               /\ UNCHANGED <<input, i>>
          ELSE /\ input' = [copy EXCEPT !.IC = ic]
               /\ i' = 0
               /\ fpc' = "attn"
               /\ UNCHANGED fwd_err
    /\ UNCHANGED <<tags, num_labels, batch_size, heap, formatted_dict, attn_calls,
                   ner_output, last_ner, ic_output, fwd_result>>
    /\ UNCHANGED evalVars

\* A loop that runs once per tag level.
LoopBoundPerLevel == Len(tags)

\* range(len(self.tags)-1): the number of iterations of the attention loop.
LoopBound == Len(tags) - 1

\* An attention call whose query is the level's projection as LinearProjFormat made it.
AttnCallStaleQuery(h, k) ==
    [module |-> tags[k + 1],
     query  |-> NERProj(tags[k + 1]),
     key    |-> h[tags[k + 2]],
     value  |-> h[tags[k + 2]],
     target |-> tags[k + 2]]

\* Lines 52-55 with loop index k (0-based): the module call made.
AttnCall(h, k) ==
    [module |-> tags[k + 1],
     query  |-> h[tags[k + 1]],
     key    |-> h[tags[k + 2]],
     value  |-> h[tags[k + 2]],
     target |-> tags[k + 2]]

\* Lines 51-55: one iteration of the hierarchical attention loop; the result is
\* stored in the inner dict that input['H_NER'] refers to.
IC2NER_Attn ==
    /\ fpc = "attn" /\ i < LoopBound
    /\ IF i + 2 > Len(tags)
       THEN /\ FwdRaise("IndexError: list index out of range")
            /\ UNCHANGED <<heap, i, attn_calls>>
       ELSE LET h    == heap[input.H_NER]
                call == AttnCall(h, i)
                out  == MultiheadAttention(<<"ic2ner.attn", call.module>>, proj_dim,
                                           call.query, call.key, call.value)
            IN IF IsError(out)
               THEN /\ FwdRaise(out.error)
                    /\ UNCHANGED <<heap, i, attn_calls>>
               ELSE /\ heap' = [heap EXCEPT ![input.H_NER][call.target] = out]
                    /\ attn_calls' = Append(attn_calls, call)
                    /\ i' = i + 1
                    /\ UNCHANGED <<fpc, fwd_err>>
    /\ UNCHANGED <<tags, num_labels, batch_size, formatted_dict, input, ner_output,
                   last_ner, ic_output, fwd_result>>
    /\ UNCHANGED evalVars

\* Lines 57-58: the mix step, and the last level's tensor handed back.
IC2NER_Mix ==
    /\ fpc = "attn" /\ i >= LoopBound
    /\ LET h   == heap[input.H_NER]
           mix == [column \in TagSet |-> MatMul(h[column], input.IC[column])]
       IN IF \E column \in TagSet : IsError(mix[column])
          THEN /\ FwdRaise((CHOOSE column \in TagSet : IsError(mix[column])).error)
               /\ UNCHANGED <<ner_output, last_ner>>
          ELSE IF tags = <<>>
          THEN /\ FwdRaise("IndexError: list index out of range")
               /\ UNCHANGED <<ner_output, last_ner>>
          ELSE /\ ner_output' = mix
               /\ last_ner' = h[tags[Len(tags)]]
               /\ fpc' = "ner2ic"
               /\ UNCHANGED fwd_err
    /\ UNCHANGED <<tags, num_labels, batch_size, heap, formatted_dict, input, i,
                   attn_calls, ic_output, fwd_result>>
    /\ UNCHANGED evalVars

\* NER2IC.forward (lines 72-77).
NER2IC_forward(ic_tensor, last_ner_tensor) ==
    LET a == Mean(ic_tensor, 3, TRUE)
        b == Mean(last_ner_tensor, 2, TRUE)
        o == MatMul(a, b)
    IN IF IsError(o) THEN o
       ELSE Linear(<<"ner2ic.linear">>, proj_dim, num_labels.IC, Mean(o, 2, FALSE))

\* Line 120: the pooling head on the caller's formatted_dict['IC'] and last_ner.
NER2IC ==
    /\ fpc = "ner2ic"
    /\ LET out == NER2IC_forward(formatted_dict.IC, last_ner)
       IN IF IsError(out)
          THEN FwdRaise(out.error) /\ UNCHANGED ic_output
          ELSE ic_output' = out /\ fpc' = "return" /\ UNCHANGED fwd_err
    /\ UNCHANGED <<tags, num_labels, batch_size, heap, formatted_dict, input, i,
                   attn_calls, ner_output, last_ner, fwd_result>>
    /\ UNCHANGED evalVars

\* Lines 121-123.
ForwardReturn ==
    /\ fpc = "return"
    /\ fwd_result' = [IC |-> ic_output, H_NER |-> ner_output]
    /\ fpc' = "done"
    /\ UNCHANGED <<tags, num_labels, batch_size, heap, formatted_dict, input, i,
                   attn_calls, ner_output, last_ner, ic_output, fwd_err>>
    /\ UNCHANGED evalVars

NextFwd ==
    \/ Format
    \/ IC2NER_Setup
    \/ IC2NER_Attn
    \/ IC2NER_Mix
    \/ NER2IC
    \/ ForwardReturn

SpecFwd == InitFwd /\ [][NextFwd]_vars

\* ============================================================== claims
\* ---- helpers of the statements
Range(f) == {f[k] : k \in DOMAIN f}

\* The decoded tag rows the accumulators hold, before or after concatenation.
DecodedRows(acc) ==
    IF built THEN acc.rows ELSE Flatten([k \in 1..Len(acc) |-> acc[k].rows])

Sentinels == {NoneObject, NoneString}

HasSentinel(rows) == \E r \in 1..Len(rows) : \E c \in 1..Len(rows[r]) : rows[r][c] \in Sentinels

\* The predicted IC ids the accumulator holds, before or after concatenation.
PredictedIC ==
    IF built THEN Range(IC_OUTPUT.data)
    ELSE UNION {Range(IC_OUTPUT[k].data) : k \in 1..Len(IC_OUTPUT)}

PredictedNER == UNION {Range(ner_pred_ids[r]) : r \in 1..Len(ner_pred_ids)}

\* Some example of the batch source carries a NER label id that idx2ner lacks.
UnmappedGold ==
    \E b \in 1..Len(val_dtl) : \E r \in 1..Len(val_dtl[b]) :
       \E c \in 2..(MaxLength + 1) : val_dtl[b][r].labels[c] \notin DOMAIN idx2ner

\* The running call has left the inference loop, or a call has ended.
PastLoop == pc \in {"global", "langs"} \/ (pc = "idle" /\ results # <<>>)

BothCallsDone == Len(results) = 2

\* The second call's language array is the first call's, reordered as the examples were.
LangsTravel ==
    /\ Len(results[1].language_arr) = NumExamples
    /\ results[2].language_arr = PermuteLangs(results[1].language_arr, results[2].order)

\* C1 as claimed: with the language array held fixed, a second call over the batches
\* in a permuted order returns the same global and per-language metrics as the first.
C1_FixedLangsOrderInvariant ==
    (BothCallsDone /\ results[2].language_arr = results[1].language_arr)
        => results[2].value = results[1].value

\* C1 amended: a second call over the batches in a permuted order ends as the first
\* did and returns the same global metrics; the per-language metrics are the same too
\* when the language array was reordered together with the examples.
C1_GlobalOrderInvariant ==
    BothCallsDone =>
        /\ IsPermutation(results[2].order, Len(val_dtl))
        /\ results[2].outcome = results[1].outcome
        /\ results[1].outcome = "returned" =>
              /\ results[2].value.global = results[1].value.global
              /\ LangsTravel => results[2].value.lang = results[1].value.lang

\* C1 witness: both calls returned, the second over reordered batches with the
\* language array reordered along, and the languages really score differently.
C1_Witness ==
    /\ BothCallsDone
    /\ results[1].outcome = "returned" /\ results[2].outcome = "returned"
    /\ results[2].order # results[1].order
    /\ results[2].language_arr # results[1].language_arr
    /\ LangsTravel
    /\ DOMAIN results[1].value.lang = Langs
    /\ results[1].value.lang["en"] # results[1].value.lang["fr"]

\* C2: when the language array has one entry per example, the per-language mapping a
\* call returns has exactly one key per distinct language value, and the index sets
\* selected for the keys are non-empty, pairwise disjoint and cover every example.
C2_LanguagePartition ==
    (pc = "langs" /\ langs_left = <<>> /\ Len(language_arr) = NumExamples) =>
        /\ DOMAIN lang_metrics = Range(language_arr)
        /\ DOMAIN lang_idx = Range(language_arr)
        /\ \A l \in DOMAIN lang_idx :
              /\ lang_idx[l] # {}
              /\ lang_idx[l] = {k \in 1..NumExamples : language_arr[k] = l}
        /\ \A l1, l2 \in DOMAIN lang_idx : l1 # l2 => lang_idx[l1] \cap lang_idx[l2] = {}
        /\ UNION {lang_idx[l] : l \in DOMAIN lang_idx} = 1..NumExamples

\* C2 witness: the second loop has ended over an array holding both languages, one of
\* them for more than one example.
C2_Witness ==
    /\ pc = "langs" /\ langs_left = <<>> /\ Len(language_arr) = NumExamples
    /\ DOMAIN lang_idx = Langs
    /\ Cardinality(lang_idx["en"]) >= 2

\* C3: a second call with the same batch order and the same language array ends as
\* the first did, with the same global and per-language metrics, and every call
\* starts its loop with four empty accumulators.
C3_Idempotent ==
    /\ (BothCallsDone /\ results[2].order = results[1].order
           /\ results[2].language_arr = results[1].language_arr)
          => /\ results[2].outcome = results[1].outcome
             /\ results[2].err = results[1].err
             /\ results[2].value = results[1].value
    /\ (pc = "loop" /\ it = 0)
          => (IC_LABELS = <<>> /\ IC_OUTPUT = <<>> /\ NER_LABELS = <<>> /\ NER_OUTPUT = <<>>)

\* C3 witness: two calls with the same arguments have both returned metrics for two
\* languages.
C3_Witness ==
    /\ BothCallsDone
    /\ results[2].order = results[1].order
    /\ results[2].language_arr = results[1].language_arr
    /\ results[1].outcome = "returned"
    /\ DOMAIN results[1].value.lang = Langs

\* C4 as claimed: a NER id without an entry in idx2ner aborts the call, so no
\* sentinel ever stands in the decoded tag sequences and no call over such data returns.
C4_AbortsOnUnmappedId ==
    /\ ~HasSentinel(DecodedRows(NER_LABELS))
    /\ ~HasSentinel(DecodedRows(NER_OUTPUT))
    /\ \A k \in 1..Len(results) : results[k].outcome = "returned" => ~UnmappedGold

\* C5: every predicted IC id is in 0..NumIC-1 and every predicted NER id, at every
\* position, is in 0..NumNER-1.
C5_PredictionsInRange ==
    /\ PredictedIC \subseteq 0..(NumIC - 1)
    /\ PredictedNER \subseteq 0..(NumNER - 1)

\* C5 witness: batches have been processed and both label ids occur among the
\* predictions of each task.
C5_Witness ==
    /\ it >= 2
    /\ PredictedIC = 0..(NumIC - 1)
    /\ PredictedNER = 0..(NumNER - 1)

\* C6: a call hands back metrics only after its iterator yielded every batch exactly
\* once, and then both mappings are there; a call that raised hands back nothing.
C6_AllOrNothing ==
    /\ pc \in {"global", "langs"} => it = Len(val_dtl)
    /\ \A k \in 1..Len(results) :
          /\ results[k].outcome = "returned" =>
                /\ IsPermutation(results[k].consumed, Len(val_dtl))
                /\ results[k].value.global # NoValue
                /\ DOMAIN results[k].value.lang = Range(results[k].language_arr)
          /\ results[k].outcome = "raised" => results[k].value = NoValue

\* C6 witness: a call raised in the per-language loop, after the global metrics had
\* been computed.
C6_Witness ==
    /\ results # <<>>
    /\ results[Len(results)].outcome = "raised"
    /\ pc = "idle" /\ built /\ global_metrics # NoValue

\* C9 as claimed: for a non-empty batch source, once the loop has ended the four
\* concatenated collections exist and hold one row per example.
C9_OneRowPerExample ==
    (Len(val_dtl) >= 1 /\ PastLoop) =>
        /\ built
        /\ Len(IC_LABELS.data) = NumExamples
        /\ Len(IC_OUTPUT.data) = NumExamples
        /\ Len(NER_LABELS.rows) = NumExamples
        /\ Len(NER_OUTPUT.rows) = NumExamples

\* ---- forward pass
IC2NERReturned == fpc \in {"ner2ic", "return", "done"}

\* The label-space tensor of a level (line 49).
ICLabelSpace(column) ==
    Linear(<<"ic2ner.linear", column>>, pos_embeddings, num_labels.H_NER[column],
           Transpose12(ICProj))

RECURSIVE Cascade(_)
\* The value the fold of C8 gives level k (1-based): the projection for the first
\* level, and for the others the attention of the module of level k-1 with the
\* previous level's value as query and the level's own projection as key and value.
Cascade(k) ==
    IF k = 1 THEN NERProj(tags[1])
    ELSE MultiheadAttention(<<"ic2ner.attn", tags[k - 1]>>, proj_dim,
                            Cascade(k - 1), NERProj(tags[k]), NERProj(tags[k]))

\* C7: with a single tag level the forward pass raises nothing, calls no attention
\* module, and returns NER logits for the level (the level's projection times its
\* label-space tensor, batch x positions x labels) and an IC output pooled from the
\* IC projection and that same projection (batch x IC labels).
C7_SingleLevel ==
    Len(tags) = 1 =>
        /\ fpc # "error"
        /\ attn_calls = <<>>
        /\ fpc = "done" =>
              /\ DOMAIN fwd_result.H_NER = {tags[1]}
              /\ fwd_result.H_NER[tags[1]] = MatMul(NERProj(tags[1]), ICLabelSpace(tags[1]))
              /\ fwd_result.H_NER[tags[1]].shape =
                    <<batch_size, pos_embeddings, num_labels.H_NER[tags[1]]>>
              /\ fwd_result.IC = NER2IC_forward(ICProj, NERProj(tags[1]))
              /\ fwd_result.IC.shape = <<batch_size, num_labels.IC>>

\* C7 witness: a forward pass over a single-level hierarchy has returned.
C7_Witness == Len(tags) = 1 /\ fpc = "done" /\ fwd_result # NoValue

\* C8: for n >= 1 levels the loop makes n-1 attention calls, the k-th with the module
\* of level k, the current value of level k as query and the original projection of
\* level k+1 as key and value; its result replaces level k+1 before the next call and
\* before the mix step; the first level is never replaced.
C8_LeftToRightFold ==
    Len(tags) >= 1 =>
        /\ fpc = "attn" => Len(attn_calls) = i
        /\ IC2NERReturned => Len(attn_calls) = Len(tags) - 1
        /\ \A k \in 1..Len(attn_calls) :
              /\ attn_calls[k].module = tags[k]
              /\ attn_calls[k].target = tags[k + 1]
              /\ attn_calls[k].query = Cascade(k)
              /\ attn_calls[k].key = NERProj(tags[k + 1])
              /\ attn_calls[k].value = NERProj(tags[k + 1])
        /\ fpc \in {"attn", "ner2ic", "return", "done"} =>
              \A k \in 1..Len(tags) :
                 heap[input.H_NER][tags[k]] =
                    IF k <= Len(attn_calls) + 1 THEN Cascade(k) ELSE NERProj(tags[k])
        /\ IC2NERReturned =>
              /\ \A k \in 1..Len(tags) :
                    ner_output[tags[k]] = MatMul(Cascade(k), ICLabelSpace(tags[k]))
              /\ last_ner = Cascade(Len(tags))

\* C8 witness: IC2NER.forward has returned for a hierarchy of three levels, so the
\* second attention call took an attention-updated value as its query.
C8_Witness ==
    /\ Len(tags) = 3 /\ fpc = "done"
    /\ Len(attn_calls) = 2
    /\ attn_calls[2].query # NERProj(tags[2])

\* C10 as claimed: after IC2NER.forward has returned, the caller's dict still holds
\* the IC projection and, for every level, that level's original projection.
C10_ArgumentUnchanged ==
    IC2NERReturned =>
        /\ formatted_dict.IC = ICProj
        /\ \A column \in TagSet : heap[formatted_dict.H_NER][column] = NERProj(column)

====
